---- MODULE Spec2Model ----
(***************************************************************************)
(* Membership class-upgrade engine of the mutual-aid fund backend.         *)
(* MembershipService.request_class_upgrade and .process_monthly_payment    *)
(* (backend/services/membership.py) over the class_upgrades table          *)
(* (backend/services/class_upgrades.py) and the profiles table.            *)
(***************************************************************************)
EXTENDS Integers, Sequences, FiniteSets, TLC

\* ------------------------------------------------------------------ bounds
\* datetime.now() is a clock that advances by one with every call that
\* commits a write; calls stop when it reaches MaxTime.
MaxTime == 9
\* At most MaxCommitFailures commits raise in one run.
MaxCommitFailures == 1

\* ---------------------------------------------------------------- universe
\* Members that have a profile row, and one authenticated user without one.
Members == {"u1", "u2"}
Stranger == "u3"
UserIds == Members \cup {Stranger}

Classes == {"A", "B", "C", "D"}
\* Values a caller may pass as to_class: the four classes and one outside.
ToClasses == Classes \cup {"E"}

\* `limit: int = 20` of get_list
DefaultLimit == 20

\* Python None / SQL NULL of a nullable integer or timestamp column.
None == -1

\* Messages of the handlers (membership.py:86,94,103,139,172,178).
MsgNoProfile == "Perfil nao encontrado"
MsgDowngrade == "Nao e possivel fazer downgrade de classe"
MsgPendingExists == "Voce ja tem uma solicitacao de upgrade pendente"
MsgUpgradeRequested == "Upgrade de classe solicitado"
MsgUpgradeActivated == "Upgrade ativado"
MsgPaymentProcessed == "Pagamento processado com sucesso"
\* An exception raised by db.commit() and re-raised by the service layer.
MsgCommitFailed == "commit failed"

VARIABLES
    profiles,         \* rows of table profiles
    upgrades,         \* rows of table class_upgrades
    next_upgrade_id,  \* autoincrement of class_upgrades.id
    now,              \* datetime.now()
    last,             \* the last handler call and what it returned or raised
    prev,             \* the two tables as they were before the last call
    commit_failures,  \* commits that have raised so far
    payments_since,   \* per member: monthly payments processed for the
                      \* member's newest upgrade record while it was pending
    contributions,    \* rows of table contributions
    requests,         \* rows of table requests
    repayments,       \* rows of table repayments
    repayment_installments,  \* rows of table repayment_installments
    inflight,         \* per coroutine: the request_class_upgrade call it is
                      \* in, the await it has reached and its local variables
    verified          \* per member, where a run keeps the record: the paid
                      \* sessions the member has sent to verify_payment

vars == <<profiles, upgrades, next_upgrade_id, now, last, prev,
          commit_failures, payments_since, contributions, requests,
          repayments, repayment_installments, inflight, verified>>

\* The coroutines that may run a call each, and a coroutine that has none.
Coroutines == {1, 2}
Idle ==
    [pc |-> "idle", user_id |-> "", to_class |-> "", from_class |-> "",
     profile_id |-> 0, upgrade_id |-> 0, raised |-> "", success |-> FALSE]

\* The tables the routers write and MembershipService and
\* RepaymentCalculator never touch.
router_tables == <<contributions, requests, repayments, repayment_installments>>

NoRouterRows ==
    /\ contributions = {}
    /\ requests = {}
    /\ repayments = {}
    /\ repayment_installments = {}

\* ----------------------------------------------------------------- helpers
\* class_order with a default that outranks every class
class_order_default_high(c) ==
    CASE c = "A" -> 1
      [] c = "B" -> 2
      [] c = "C" -> 3
      [] c = "D" -> 4
      [] OTHER -> 5

\* class_order.get(c, 0) of request_class_upgrade
class_order(c) ==
    CASE c = "A" -> 1
      [] c = "B" -> 2
      [] c = "C" -> 3
      [] c = "D" -> 4
      [] OTHER -> 0

\* The rows of a set in ORDER BY id DESC.
RECURSIVE OrderByIdDesc(_)
OrderByIdDesc(rows) ==
    IF rows = {} THEN <<>>
    ELSE LET top == CHOOSE r \in rows : \A q \in rows : q.id <= r.id
         IN  <<top>> \o OrderByIdDesc(rows \ {top})

\* the ownership filter left out
OwnerFilter_missing(row, user_id) == TRUE

\* `query.offset(0).limit(limit)`
Limit(items, limit) ==
    IF Len(items) > limit THEN SubSeq(items, 1, limit) ELSE items

\* `if user_id: query = query.where(user_id == user_id)`: an empty user id
\* adds no filter.
OwnerFilter(row, user_id) == user_id = "" \/ row.user_id = user_id

\* ProfilesService.get_list(user_id=..., limit=1)["items"]
ProfilesService_get_list(rows, user_id) ==
    Limit(OrderByIdDesc({p \in rows : OwnerFilter(p, user_id)}), 1)

\* ProfilesService.update(obj_id, update_data, user_id): the rows after it.
ProfilesService_update(rows, obj_id, update_data, user_id) ==
    { IF p.id = obj_id /\ OwnerFilter(p, user_id)
        THEN [f \in DOMAIN p |->
                IF f \in DOMAIN update_data /\ f # "user_id"
                  THEN update_data[f] ELSE p[f]]
        ELSE p : p \in rows }

\* get_list that skips the first row (offset 1 instead of 0)
Class_upgradesService_get_list_skip_one(rows, user_id, status) ==
    LET all == OrderByIdDesc({u \in rows :
                    OwnerFilter(u, user_id) /\ u.status = status})
    IN  IF all = <<>> THEN all ELSE Tail(all)

\* get_list that ignores query_dict
Class_upgradesService_get_list_no_query(rows, user_id, status) ==
    OrderByIdDesc({u \in rows : OwnerFilter(u, user_id)})

\* Class_upgradesService.get_list(user_id=..., query_dict={"status": s})["items"]
Class_upgradesService_get_list(rows, user_id, status) ==
    Limit(OrderByIdDesc({u \in rows :
              OwnerFilter(u, user_id) /\ u.status = status}), DefaultLimit)

\* Class_upgradesService.create(data, user_id): the new row.
Class_upgradesService_create(data, user_id, new_id) ==
    [id |-> new_id,
     user_id |-> IF user_id # "" THEN user_id ELSE data.user_id,
     profile_id |-> data.profile_id,
     from_class |-> data.from_class,
     to_class |-> data.to_class,
     status |-> data.status,
     payments_in_new_class |-> data.payments_in_new_class,
     requested_at |-> data.requested_at,
     activated_at |-> None]

\* get_by_id without the `id == obj_id` condition
Class_upgradesService_get_by_id_any(rows, obj_id, user_id) ==
    {u \in rows : OwnerFilter(u, user_id)}

\* Class_upgradesService.get_by_id(obj_id, user_id): the matching rows.
Class_upgradesService_get_by_id(rows, obj_id, user_id) ==
    {u \in rows : u.id = obj_id /\ OwnerFilter(u, user_id)}

\* update that sets every column named in update_data, user_id included
Class_upgradesService_update_any_column(rows, obj_id, update_data, user_id) ==
    LET found == Class_upgradesService_get_by_id(rows, obj_id, user_id)
    IN  { IF u \in found
            THEN [f \in DOMAIN u |->
                    IF f \in DOMAIN update_data THEN update_data[f] ELSE u[f]]
            ELSE u : u \in rows }

\* Class_upgradesService.update(obj_id, update_data, user_id): the rows after
\* it; every key of update_data that is a column, user_id excepted, is set.
Class_upgradesService_update(rows, obj_id, update_data, user_id) ==
    LET found == Class_upgradesService_get_by_id(rows, obj_id, user_id)
    IN  { IF u \in found
            THEN [f \in DOMAIN u |->
                    IF f \in DOMAIN update_data /\ f # "user_id"
                      THEN update_data[f] ELSE u[f]]
            ELSE u : u \in rows }

\* Class_upgradesService.delete(obj_id, user_id): the rows after it.
Class_upgradesService_delete(rows, obj_id, user_id) ==
    rows \ Class_upgradesService_get_by_id(rows, obj_id, user_id)

\* the comparison with < in place of <=
is_downgrade_strict(to_class, from_class) ==
    class_order(to_class) < class_order(from_class)

\* `class_order.get(to_class, 0) <= class_order.get(from_class, 0)`
is_downgrade(to_class, from_class) ==
    class_order(to_class) <= class_order(from_class)

\* the emptiness test always false
has_items_never(items) == FALSE

\* `if existing_upgrades["items"]:` / `if pending_upgrades["items"]:`
has_items(items) == items # <<>>

\* `new_payments = (upgrade.payments_in_new_class or 0) + 1`
new_payments_of(upgrade) ==
    (IF upgrade.payments_in_new_class = None
       THEN 0 ELSE upgrade.payments_in_new_class) + 1

\* activation one payment early
activation_due_at_two(new_payments) == new_payments >= 2

\* `if new_payments >= 3:`
activation_due(new_payments) == new_payments >= 3

\* ------------------------------------------------------------------- state
NoCall ==
    [op |-> "none", user_id |-> "", to_class |-> "", raised |-> "",
     success |-> FALSE, message |-> "", upgrade_activated |-> FALSE,
     upgrade_id |-> 0]

Call(op, user_id, to_class, raised, success, message, activated, upgrade_id) ==
    [op |-> op, user_id |-> user_id, to_class |-> to_class, raised |-> raised,
     success |-> success, message |-> message, upgrade_activated |-> activated,
     upgrade_id |-> upgrade_id]

Profile(id, user_id, class) ==
    [id |-> id, user_id |-> user_id, membership_class |-> class,
     account_status |-> "active", consecutive_months_paid |-> 0,
     months_late |-> 0, updated_at |-> 0]

\* The months check_eligibility asks for (membership.py:52).
MonthsRequired == 6

\* The record of a run that keeps none, and of one that starts keeping it.
NotRecorded == <<>>
NothingVerified == [m \in Members |-> [join_fee |-> FALSE, months |-> 0]]

\* The record after `call`: a paid join-fee session sent to verify_payment
\* marks the join fee, a paid monthly session after it counts a month (up to
\* MonthsRequired), an invoice.payment_failed event for the member's
\* subscription starts the record again.
Verified(record, call) ==
    IF call.op = "verify_payment"
    THEN IF /\ call.user_id \in DOMAIN record
            /\ call.retrieved
            /\ call.payment_status = "paid"
         THEN IF call.payment_type = "join_fee"
              THEN [record EXCEPT ![call.user_id].join_fee = TRUE]
              ELSE IF /\ call.payment_type = "monthly"
                      /\ record[call.user_id].join_fee
                      /\ record[call.user_id].months < MonthsRequired
              THEN [record EXCEPT ![call.user_id].months = @ + 1]
              ELSE record
         ELSE record
    ELSE IF call.op = "stripe_webhook"
    THEN IF /\ call.user_id \in DOMAIN record
            /\ call.event_type = "invoice.payment_failed"
         THEN [record EXCEPT ![call.user_id] =
                                 [join_fee |-> FALSE, months |-> 0]]
         ELSE record
    ELSE record

Init ==
    /\ \E c1 \in Classes :
          profiles = {Profile(1, "u1", c1), Profile(2, "u2", "B")}
    /\ upgrades = {}
    /\ next_upgrade_id = 1
    /\ now = 1
    /\ last = NoCall
    /\ prev = [profiles |-> profiles, upgrades |-> upgrades]
    /\ commit_failures = 0
    /\ payments_since = [m \in UserIds |-> 0]
    /\ inflight = [c \in Coroutines |-> Idle]
    /\ verified = NotRecorded
    /\ NoRouterRows

\* What every handler call does besides its own writes.
Called(call, committed) ==
    /\ now < MaxTime
    /\ now' = IF committed THEN now + 1 ELSE now
    /\ IF call.raised = MsgCommitFailed
         THEN /\ commit_failures < MaxCommitFailures
              /\ commit_failures' = commit_failures + 1
         ELSE UNCHANGED commit_failures
    /\ last' = call
    /\ prev' = [profiles |-> profiles, upgrades |-> upgrades]
    /\ verified' = Verified(verified, call)
    /\ UNCHANGED inflight

\* the missing profile raised, as request_class_upgrade does
profile_not_found_raises(user_id) ==
    Call("process_monthly_payment", user_id, "",
         MsgNoProfile, FALSE, "", FALSE, 0)

\* `return {"success": False, "message": "Perfil nao encontrado"}`
profile_not_found(user_id) ==
    Call("process_monthly_payment", user_id, "",
         "", FALSE, MsgNoProfile, FALSE, 0)

\* ------------------------------------------- request_class_upgrade
\* fault: "none", or the commit that raises: "create" (class_upgrades.py:26)
\* or "profile_update" (the commit of ProfilesService.update).
request_class_upgrade(user_id, to_class, fault) ==
    LET profile_list == ProfilesService_get_list(profiles, user_id)
    IN
    IF profile_list = <<>>
    THEN /\ fault = "none"
         /\ Called(Call("request_class_upgrade", user_id, to_class,
                        MsgNoProfile, FALSE, "", FALSE, 0), FALSE)
         /\ UNCHANGED <<profiles, upgrades, next_upgrade_id, payments_since>>
    ELSE
    LET profile == profile_list[1]
        from_class == profile.membership_class
        existing_upgrades ==
            Class_upgradesService_get_list(upgrades, user_id, "pending")
        upgrade_data ==
            [user_id |-> user_id, profile_id |-> profile.id,
             from_class |-> from_class, to_class |-> to_class,
             status |-> "pending", payments_in_new_class |-> 0,
             requested_at |-> now]
        upgrade ==
            Class_upgradesService_create(upgrade_data, user_id, next_upgrade_id)
    IN
    IF is_downgrade(to_class, from_class)
    THEN /\ fault = "none"
         /\ Called(Call("request_class_upgrade", user_id, to_class,
                        MsgDowngrade, FALSE, "", FALSE, 0), FALSE)
         /\ UNCHANGED <<profiles, upgrades, next_upgrade_id, payments_since>>
    ELSE IF has_items(existing_upgrades)
    THEN /\ fault = "none"
         /\ Called(Call("request_class_upgrade", user_id, to_class,
                        MsgPendingExists, FALSE, "", FALSE, 0), FALSE)
         /\ UNCHANGED <<profiles, upgrades, next_upgrade_id, payments_since>>
    ELSE IF fault = "create"
    THEN \* commit of the new row raises: rollback, re-raise
         /\ Called(Call("request_class_upgrade", user_id, to_class,
                        MsgCommitFailed, FALSE, "", FALSE, 0), FALSE)
         /\ UNCHANGED <<profiles, upgrades, next_upgrade_id, payments_since>>
    ELSE IF fault = "profile_update"
    THEN \* the row is committed; the profile commit raises and is rolled back
         /\ upgrades' = upgrades \cup {upgrade}
         /\ next_upgrade_id' = next_upgrade_id + 1
         /\ payments_since' = [payments_since EXCEPT ![user_id] = 0]
         /\ Called(Call("request_class_upgrade", user_id, to_class,
                        MsgCommitFailed, FALSE, "", FALSE, 0), TRUE)
         /\ UNCHANGED profiles
    ELSE /\ fault = "none"
         /\ upgrades' = upgrades \cup {upgrade}
         /\ next_upgrade_id' = next_upgrade_id + 1
         /\ profiles' = ProfilesService_update(profiles, profile.id,
                [membership_class |-> to_class, updated_at |-> now], user_id)
         /\ payments_since' = [payments_since EXCEPT ![user_id] = 0]
         /\ Called(Call("request_class_upgrade", user_id, to_class,
                        "", TRUE, MsgUpgradeRequested, FALSE, upgrade.id), TRUE)

\* ------------------------------------------- process_monthly_payment
\* fault: "none", or the commit that raises: "update_counter"
\* (membership.py:153) or "update_status" (membership.py:161).
process_monthly_payment(user_id, fault) ==
    LET profile_list == ProfilesService_get_list(profiles, user_id)
        pending_upgrades ==
            Class_upgradesService_get_list(upgrades, user_id, "pending")
    IN
    IF profile_list = <<>>
    THEN /\ fault = "none"
         /\ Called(profile_not_found(user_id), FALSE)
         /\ UNCHANGED <<profiles, upgrades, next_upgrade_id, payments_since>>
    ELSE IF ~has_items(pending_upgrades)
    THEN /\ fault = "none"
         /\ Called(Call("process_monthly_payment", user_id, "",
                        "", TRUE, MsgPaymentProcessed, FALSE, 0), FALSE)
         /\ UNCHANGED <<profiles, upgrades, next_upgrade_id, payments_since>>
    ELSE
    LET upgrade == pending_upgrades[1]
        new_payments == new_payments_of(upgrade)
        counted == Class_upgradesService_update(upgrades, upgrade.id,
                      [payments_in_new_class |-> new_payments], user_id)
        activated == Class_upgradesService_update(counted, upgrade.id,
                      [status |-> "active", activated_at |-> now], user_id)
    IN
    /\ UNCHANGED <<profiles, next_upgrade_id>>
    /\ payments_since' =
          IF fault = "update_counter" THEN payments_since
          ELSE [payments_since EXCEPT ![user_id] = @ + 1]
    /\ IF fault = "update_counter"
       THEN /\ UNCHANGED upgrades
            /\ Called(Call("process_monthly_payment", user_id, "",
                           MsgCommitFailed, FALSE, "", FALSE, upgrade.id), FALSE)
       ELSE IF activation_due(new_payments)
       THEN IF fault = "update_status"
            THEN /\ upgrades' = counted
                 /\ Called(Call("process_monthly_payment", user_id, "",
                                MsgCommitFailed, FALSE, "", FALSE, upgrade.id), TRUE)
            ELSE /\ fault = "none"
                 /\ upgrades' = activated
                 /\ Called(Call("process_monthly_payment", user_id, "",
                                "", TRUE, MsgUpgradeActivated, TRUE, upgrade.id), TRUE)
       ELSE /\ fault = "none"
            /\ upgrades' = counted
            /\ Called(Call("process_monthly_payment", user_id, "",
                           "", TRUE, MsgPaymentProcessed, FALSE, upgrade.id), TRUE)

\* ------------------------------------------------------- specifications
\* One call at a time, each run to completion; the database commits.
RequestUpgrade ==
    /\ \E user_id \in UserIds, to_class \in ToClasses :
          request_class_upgrade(user_id, to_class, "none")
    /\ UNCHANGED router_tables

OnMonthlyPayment ==
    /\ \E user_id \in UserIds : process_monthly_payment(user_id, "none")
    /\ UNCHANGED router_tables

Next == RequestUpgrade \/ OnMonthlyPayment

Spec == Init /\ [][Next]_vars

\* The same calls where a commit may raise.
RequestUpgradeCommitFails ==
    /\ \E user_id \in UserIds, to_class \in ToClasses,
          fault \in {"create", "profile_update"} :
          request_class_upgrade(user_id, to_class, fault)
    /\ UNCHANGED router_tables

OnMonthlyPaymentCommitFails ==
    /\ \E user_id \in UserIds, fault \in {"update_counter", "update_status"} :
          process_monthly_payment(user_id, fault)
    /\ UNCHANGED router_tables

NextFault ==
    \/ RequestUpgrade
    \/ OnMonthlyPayment
    \/ RequestUpgradeCommitFails
    \/ OnMonthlyPaymentCommitFails

SpecFault == Init /\ [][NextFault]_vars

TypeOK ==
    /\ now \in 1..MaxTime
    /\ next_upgrade_id \in Nat
    /\ commit_failures \in 0..MaxCommitFailures
    /\ \A p \in profiles : p.membership_class \in Classes

\* ------------------------------------------------------- check_eligibility
\* Columns of the mapped class Profiles (models/profiles.py:9-19): the
\* attributes a profile object has.
ProfilesColumns ==
    {"id", "user_id", "full_name", "phone", "membership_class",
     "account_status", "consecutive_months_paid", "months_late",
     "stripe_subscription_id", "created_at", "updated_at"}

\* Reading obj.name raises AttributeError unless the class maps the name.
HasAttr(columns, name) == name \in columns

\* `x or 0` of a nullable integer
OrZero(x) == IF x = None THEN 0 ELSE x

\* MembershipService.get_class_limits
get_class_limits(class_type) ==
    CASE class_type = "A" -> [monthly |-> 25, limit |-> 2000]
      [] class_type = "B" -> [monthly |-> 50, limit |-> 3000]
      [] class_type = "C" -> [monthly |-> 75, limit |-> 5000]
      [] class_type = "D" -> [monthly |-> 100, limit |-> 10000]
      [] OTHER -> [monthly |-> 0, limit |-> 0]

ReasonNoProfile == "Perfil nao encontrado"
ReasonJoinFee == "Taxa de adesao nao paga"
ReasonMonths == "Necessario 6 meses pagos consecutivos"
ReasonArrears == "Mais de 2 meses em atraso"
ReasonStatus == "Status da conta"

\* What a call gives back: the exception it raises ("" for none) and the
\* dict it returns (the empty function when it raises).
Returned(dict) == [raised |-> "", result |-> dict]
Raised(exception) == [raised |-> exception, result |-> <<>>]

\* MembershipService.check_eligibility(user_id) on the profiles table `rows`.
check_eligibility(rows, user_id) ==
    LET profile_list == ProfilesService_get_list(rows, user_id)
    IN
    IF profile_list = <<>>
    THEN Returned([eligible |-> FALSE, reason |-> ReasonNoProfile])
    ELSE
    LET profile == profile_list[1]
    IN
    IF ~HasAttr(ProfilesColumns, "join_fee_paid")
    THEN Raised("AttributeError: join_fee_paid")
    ELSE IF ~profile.join_fee_paid
    THEN Returned([eligible |-> FALSE, reason |-> ReasonJoinFee])
    ELSE IF ~HasAttr(ProfilesColumns, "paid_months_count")
    THEN Raised("AttributeError: paid_months_count")
    ELSE IF OrZero(profile.paid_months_count) < 6
    THEN Returned([eligible |-> FALSE, reason |-> ReasonMonths])
    ELSE IF ~HasAttr(ProfilesColumns, "months_in_arrears")
    THEN Raised("AttributeError: months_in_arrears")
    ELSE IF OrZero(profile.months_in_arrears) > 2
    THEN Returned([eligible |-> FALSE, reason |-> ReasonArrears])
    ELSE IF ~HasAttr(ProfilesColumns, "membership_status")
    THEN Raised("AttributeError: membership_status")
    ELSE IF profile.membership_status # "active"
    THEN Returned([eligible |-> FALSE, reason |-> ReasonStatus])
    ELSE
    LET class_info == get_class_limits(profile.membership_class)
    IN  Returned([eligible |-> TRUE,
                  class |-> profile.membership_class,
                  limit |-> class_info.limit,
                  paid_months |-> profile.paid_months_count])

\* Profile rows as the payment handlers leave them.
ProfileWith(id, user_id, class, status, paid, late) ==
    [Profile(id, user_id, class) EXCEPT
        !.account_status = status,
        !.consecutive_months_paid = paid,
        !.months_late = late]

\* Values around the thresholds of the eligibility rules.
PaidMonths == {0, 5, 6, 7}
LateMonths == {0, 2, 3}
AccountStatuses == {"pending", "active", "paused"}

InitEligibility ==
    /\ \E c \in Classes, s \in AccountStatuses,
          paid \in PaidMonths, late \in LateMonths :
          profiles = {ProfileWith(1, "u1", c, s, paid, late),
                      ProfileWith(2, "u2", "B", "active", 6, 2)}
    /\ upgrades = {}
    /\ next_upgrade_id = 1
    /\ now = 1
    /\ last = NoCall
    /\ prev = [profiles |-> profiles, upgrades |-> upgrades]
    /\ commit_failures = 0
    /\ payments_since = [m \in UserIds |-> 0]
    /\ inflight = [c \in Coroutines |-> Idle]
    /\ verified = NotRecorded
    /\ NoRouterRows

CheckEligibility ==
    \E user_id \in UserIds :
        LET answer == check_eligibility(profiles, user_id)
        IN  /\ last' = [op |-> "check_eligibility", user_id |-> user_id,
                        raised |-> answer.raised, result |-> answer.result]
            /\ prev' = [profiles |-> profiles, upgrades |-> upgrades]
            /\ UNCHANGED <<profiles, upgrades, next_upgrade_id, now,
                           commit_failures, payments_since, inflight, verified>>
            /\ UNCHANGED router_tables

NextEligibility == CheckEligibility

SpecEligibility == InitEligibility /\ [][NextEligibility]_vars

\* ------------------------------------------------------ RepaymentCalculator
\* Money is counted in cents; a product or quotient that is not yet rounded is
\* kept exact, as a count of hundredths of a cent or as numerator/denominator.
\* Dates are records [y, m, d] of the proleptic Gregorian calendar.

\* calendar.isleap
IsLeap(y) == (y % 4 = 0 /\ y % 100 # 0) \/ y % 400 = 0

\* Days of month m of year y.
DaysInMonth(y, m) ==
    CASE m = 2 -> IF IsLeap(y) THEN 29 ELSE 28
      [] m \in {4, 6, 9, 11} -> 30
      [] OTHER -> 31

\* Days of the months of year y before month m.
RECURSIVE DaysBeforeMonth(_, _)
DaysBeforeMonth(y, m) ==
    IF m = 1 THEN 0 ELSE DaysBeforeMonth(y, m - 1) + DaysInMonth(y, m - 1)

\* date.toordinal(): 0001-01-01 is day 1.
ToOrdinal(date) ==
    LET y == date.y - 1
    IN  y * 365 + (y \div 4) - (y \div 100) + (y \div 400)
          + DaysBeforeMonth(date.y, date.m) + date.d

\* due dates counted from the current month instead of the next
AddMonths_from_zero(date, i) ==
    LET total == date.y * 12 + (date.m - 1) + (i - 1)
        y == total \div 12
        m == (total % 12) + 1
    IN  [y |-> y, m |-> m,
         d |-> IF date.d > DaysInMonth(y, m) THEN DaysInMonth(y, m)
               ELSE date.d]

\* `current_date + relativedelta(months=i)`: the month advances by i, the day
\* is kept, or is the last day of the month when the month is shorter.
AddMonths(date, i) ==
    LET total == date.y * 12 + (date.m - 1) + i
        y == total \div 12
        m == (total % 12) + 1
    IN  [y |-> y, m |-> m,
         d |-> IF date.d > DaysInMonth(y, m) THEN DaysInMonth(y, m)
               ELSE date.d]

\* `strftime("%Y-%m-%d")`: the ten characters YYYY-MM-DD, held as the number
\* YYYYMMDD their digits spell (same order as the strings).
StrfTime(date) == date.y * 10000 + date.m * 100 + date.d

\* `datetime.strptime(s, "%Y-%m-%d").date()`
StrpTime(s) ==
    [y |-> s \div 10000, m |-> (s \div 100) % 100, d |-> s % 100]

\* round that cuts the digits off
Round_truncating(num, den, tie_up) == num \div den

\* `round(num / den, 2)` for num >= 0, den > 0, the quotient counted in
\* cents: the nearest cent; on an exact half cent the binary float decides,
\* either way (tie_up).
Round(num, den, tie_up) ==
    LET q == num \div den
        r == num % den
    IN  IF 2 * r < den THEN q
        ELSE IF 2 * r > den THEN q + 1
        ELSE IF tie_up THEN q + 1 ELSE q

\* a range check that turns 12 installments away
installments_out_of_range_at_12(installments) ==
    installments < 1 \/ installments >= 12

\* `if installments < 1 or installments > 12:`
installments_out_of_range(installments) ==
    installments < 1 \/ installments > 12

\* `total_to_repay = approved_amount * 1.02`, in hundredths of a cent
total_to_repay_of(approved_amount) == approved_amount * 102

\* the schedule amount rounded to whole units instead of cents
schedule_amount_whole_units(total, installments, tie_up) ==
    Round(total, 10000 * installments, tie_up) * 100

\* `round(installment_amount, 2)` with installment_amount = total / n
schedule_amount(total, installments, tie_up) ==
    Round(total, 100 * installments, tie_up)

\* The schedule of lines 35-45.
installment_schedule(total, installments, current_date, tie_up) ==
    [i \in 1..installments |->
        [installment_number |-> i,
         amount |-> schedule_amount(total, installments, tie_up),
         due_date |-> StrfTime(AddMonths(current_date, i)),
         status |-> "pending"]]

MsgInstallmentsRange == "Installments must be between 1 and 12"

\* RepaymentCalculator.calculate_repayment_plan(approved_amount, installments)
\* called at current_date; tie_total and tie_inst settle exact half cents.
calculate_repayment_plan(approved_amount, installments, current_date, tie_total, tie_inst) ==
    IF installments_out_of_range(installments)
    THEN Raised(MsgInstallmentsRange)
    ELSE
    LET total_to_repay == total_to_repay_of(approved_amount)
        schedule == installment_schedule(total_to_repay, installments,
                                         current_date, tie_inst)
    IN  Returned(
          [approved_amount |-> approved_amount,
           administrative_fee |-> approved_amount * 2,
           total_to_repay |-> Round(total_to_repay, 100, tie_total),
           installments |-> installments,
           installment_amount |->
               Round(total_to_repay, 100 * installments, tie_inst),
           schedule |-> schedule,
           first_due_date |-> schedule[1].due_date,
           last_due_date |-> schedule[Len(schedule)].due_date])

\* a status test that lets everything but paid through
is_pending_not_paid(inst) == inst.status # "paid"

\* `if inst.get("status") == "pending":`
is_pending(inst) == inst.status = "pending"

\* a comparison that takes the due day itself as late
due_before_or_on(due_date, today) == ToOrdinal(due_date) <= ToOrdinal(today)

\* `if due_date < today:` of two dates
due_before(due_date, today) == ToOrdinal(due_date) < ToOrdinal(today)

\* The list `overdue` of lines 70-82.
RECURSIVE overdue_entries(_, _)
overdue_entries(installments, today) ==
    IF installments = <<>> THEN <<>>
    ELSE
    LET inst == Head(installments)
        due_date == StrpTime(inst.due_date)
        rest == overdue_entries(Tail(installments), today)
    IN  IF is_pending(inst) /\ due_before(due_date, today)
        THEN <<[installment_number |-> inst.installment_number,
                amount |-> inst.amount,
                due_date |-> inst.due_date,
                days_overdue |-> ToOrdinal(today) - ToOrdinal(due_date)]>>
             \o rest
        ELSE rest

\* a sum that leaves the last entry out
RECURSIVE SumAmounts_without_last(_)
SumAmounts_without_last(entries) ==
    IF Len(entries) <= 1 THEN 0
    ELSE Head(entries).amount + SumAmounts_without_last(Tail(entries))

\* sum(inst["amount"] for inst in overdue)
RECURSIVE SumAmounts(_)
SumAmounts(entries) ==
    IF entries = <<>> THEN 0
    ELSE Head(entries).amount + SumAmounts(Tail(entries))

\* RepaymentCalculator.check_overdue_installments(installments) called on
\* the day `today`.
check_overdue_installments(installments, today) ==
    LET overdue == overdue_entries(installments, today)
    IN  Returned([has_overdue |-> Len(overdue) > 0,
                  overdue_count |-> Len(overdue),
                  overdue_installments |-> overdue,
                  total_overdue_amount |-> SumAmounts(overdue)])

\* Inputs.  Approved amounts in cents, with and without a whole-cent 2%.
ApprovedAmounts == {0, 25, 99, 12345, 100000}
InstallmentCounts == -1..14
Date(y, m, d) == [y |-> y, m |-> m, d |-> d]
\* Days on which a plan is calculated: month ends, a leap day, a year end.
CurrentDates ==
    {Date(y, m, d) : y \in {2023, 2024}, m \in {1, 2, 8, 11, 12},
                     d \in {1, 15, 28}}
      \cup {Date(2024, 2, 29), Date(2023, 1, 29), Date(2024, 1, 30),
            Date(2023, 1, 31), Date(2024, 3, 31), Date(2023, 12, 31)}

\* Longest list handed to check_overdue_installments.
MaxInstallmentDicts == 2
\* Days on which overdue installments are looked for, and due dates up to
\* ten days before and after them.
Todays == {Date(2024, 3, 10), Date(2025, 1, 5)}
DueDates ==
    {Date(2024, 2, 29), Date(2024, 3, 9), Date(2024, 3, 10),
     Date(2024, 3, 11), Date(2024, 3, 20), Date(2024, 12, 26),
     Date(2025, 1, 4), Date(2025, 1, 5), Date(2025, 1, 6),
     Date(2025, 1, 15)}
InstallmentStatuses == {"pending", "paid", "overdue"}
InstallmentDicts ==
    {[installment_number |-> na[1], amount |-> na[2],
      due_date |-> StrfTime(d), status |-> st] :
        na \in {<<1, 8500>>, <<2, 12592>>}, d \in DueDates,
        st \in InstallmentStatuses}
InstallmentLists ==
    UNION {[1..k -> InstallmentDicts] : k \in 0..MaxInstallmentDicts}

\* A call that is about to be made, with its arguments.
PlanCalls ==
    [op : {"call"}, fn : {"calculate_repayment_plan"},
     approved_amount : ApprovedAmounts, installments : InstallmentCounts,
     current_date : CurrentDates]
OverdueCalls ==
    [op : {"call"}, fn : {"check_overdue_installments"},
     installments : InstallmentLists, today : Todays]

InitCalculator ==
    /\ profiles = {Profile(1, "u1", "A"), Profile(2, "u2", "B")}
    /\ upgrades = {}
    /\ next_upgrade_id = 1
    /\ now = 1
    /\ last \in PlanCalls \cup OverdueCalls
    /\ prev = [profiles |-> profiles, upgrades |-> upgrades]
    /\ commit_failures = 0
    /\ payments_since = [m \in UserIds |-> 0]
    /\ inflight = [c \in Coroutines |-> Idle]
    /\ verified = NotRecorded
    /\ NoRouterRows

CalculateRepaymentPlan ==
    /\ last.op = "call" /\ last.fn = "calculate_repayment_plan"
    /\ \E tie_total \in BOOLEAN, tie_inst \in BOOLEAN :
        LET answer == calculate_repayment_plan(last.approved_amount,
                          last.installments, last.current_date,
                          tie_total, tie_inst)
        IN  last' = [op |-> "calculate_repayment_plan",
                     approved_amount |-> last.approved_amount,
                     installments |-> last.installments,
                     current_date |-> last.current_date,
                     raised |-> answer.raised, result |-> answer.result]
    /\ UNCHANGED <<profiles, upgrades, next_upgrade_id, now, prev,
                   commit_failures, payments_since, inflight, verified>>
    /\ UNCHANGED router_tables

CheckOverdueInstallments ==
    /\ last.op = "call" /\ last.fn = "check_overdue_installments"
    /\ LET answer == check_overdue_installments(last.installments, last.today)
       IN  last' = [op |-> "check_overdue_installments",
                    installments |-> last.installments,
                    today |-> last.today,
                    raised |-> answer.raised, result |-> answer.result]
    /\ UNCHANGED <<profiles, upgrades, next_upgrade_id, now, prev,
                   commit_failures, payments_since, inflight, verified>>
    /\ UNCHANGED router_tables

NextCalculator == CalculateRepaymentPlan \/ CheckOverdueInstallments

SpecCalculator == InitCalculator /\ [][NextCalculator]_vars

\* ------------------------------------------------------ routers/payments.py
\* Columns of the mapped classes Contributions and Repayment_installments.
ContributionsColumns ==
    {"id", "user_id", "profile_id", "contribution_type", "amount", "status",
     "payment_date", "stripe_payment_id", "created_at"}
Repayment_installmentsColumns ==
    {"id", "user_id", "repayment_id", "installment_number", "amount",
     "due_date", "paid_date", "status", "stripe_payment_id", "created_at"}

\* `Table(**kwargs)` of a declarative class: a keyword that is no mapped
\* column raises TypeError.
Construct(columns, kwargs) ==
    IF DOMAIN kwargs \subseteq columns THEN Returned(kwargs)
    ELSE Raised("TypeError")

\* `db.execute(update(Table).where(Table.id == id).values(**values))`: the
\* rows after it; a key that is no column raises CompileError.
UpdateWhereId(rows, columns, id, values) ==
    IF ~(DOMAIN values \subseteq columns) THEN Raised("CompileError")
    ELSE Returned(
           { IF r.id = id
               THEN [f \in DOMAIN r \cup DOMAIN values |->
                        IF f \in DOMAIN values THEN values[f] ELSE r[f]]
               ELSE r : r \in rows })

\* The autoincrement primary key of the next row.
NextId(rows) ==
    IF rows = {} THEN 1
    ELSE 1 + (CHOOSE i \in {r.id : r \in rows} : \A r \in rows : r.id <= i)

\* `db.add(obj)` reaching the database at flush or commit: the rows after
\* it; a NOT NULL column left without a value raises IntegrityError.
Insert(rows, obj, not_null) ==
    IF ~(not_null \subseteq DOMAIN obj) THEN Raised("IntegrityError")
    ELSE Returned(rows \cup
           {[f \in DOMAIN obj \cup {"id"} |->
                IF f = "id" THEN NextId(rows) ELSE obj[f]]})

\* `class_amounts.get(profile.membership_class, 25)`, in cents
class_amounts(class) ==
    CASE class = "A" -> 2500
      [] class = "B" -> 5000
      [] class = "C" -> 7500
      [] class = "D" -> 10000
      [] OTHER -> 2500

\* A handler that ends in HTTPException(status_code): the session is closed
\* without commit, the tables stay as they were.
Failed(status_code, raised) ==
    [status_code |-> status_code, raised |-> raised, committed |-> FALSE,
     profiles |-> profiles, contributions |-> contributions,
     repayment_installments |-> repayment_installments]

\* A handler that answers 200 without a commit.
Answered ==
    [status_code |-> 200, raised |-> "", committed |-> FALSE,
     profiles |-> profiles, contributions |-> contributions,
     repayment_installments |-> repayment_installments]

\* A handler that reaches `await db.commit()` with these tables.
Committed(new_profiles, new_contributions, new_installments) ==
    [status_code |-> 200, raised |-> "", committed |-> TRUE,
     profiles |-> new_profiles, contributions |-> new_contributions,
     repayment_installments |-> new_installments]

\* Lines 250-273 and 336-358: the profile update and the contribution of a
\* paid month; values are the keyword arguments of `.values(...)`.
monthly_paid(profile, values, status_code) ==
    LET updated == UpdateWhereId(profiles, ProfilesColumns, profile.id, values)
        contribution ==
            Construct(ContributionsColumns,
                [profile_id |-> profile.id, payment_type |-> "monthly",
                 amount |-> class_amounts(profile.membership_class),
                 payment_date |-> now, stripe_payment_id |-> "pi"])
        added == Insert(contributions, contribution.result, {"user_id"})
    IN  IF updated.raised # "" THEN Failed(status_code, updated.raised)
        ELSE IF contribution.raised # ""
        THEN Failed(status_code, contribution.raised)
        ELSE IF added.raised # "" THEN Failed(status_code, added.raised)
        ELSE Committed(updated.result, added.result, repayment_installments)

\* POST /verify_payment by user_id for a checkout session: `retrieved` is
\* FALSE when stripe.checkout.Session.retrieve raises StripeError; the rest
\* are the session's payment_type, payment_status and installment_id.
verify_payment(user_id, retrieved, payment_type, payment_status, installment_id) ==
    LET found == {p \in profiles : p.user_id = user_id}
        profile == CHOOSE p \in found : TRUE
        activated ==
            UpdateWhereId(profiles, ProfilesColumns, profile.id,
                [account_status |-> "active", updated_at |-> now])
        join_fee ==
            Construct(ContributionsColumns,
                [profile_id |-> profile.id, payment_type |-> "join_fee",
                 amount |-> 10000, payment_date |-> now,
                 stripe_payment_id |-> "pi"])
        join_added == Insert(contributions, join_fee.result, {"user_id"})
        paid_installment ==
            UpdateWhereId(repayment_installments,
                Repayment_installmentsColumns, installment_id,
                [status |-> "paid", paid_date |-> now,
                 stripe_payment_id |-> "pi"])
        outcome ==
            IF ~retrieved THEN Failed(500, "StripeError")
            ELSE IF payment_status # "paid" THEN Answered
            ELSE IF found = {} THEN Failed(500, "HTTPException 404")
            ELSE IF payment_type = "join_fee"
            THEN IF activated.raised # "" THEN Failed(500, activated.raised)
                 ELSE IF join_fee.raised # ""
                 THEN Failed(500, join_fee.raised)
                 ELSE IF join_added.raised # ""
                 THEN Failed(500, join_added.raised)
                 ELSE Committed(activated.result, join_added.result,
                                repayment_installments)
            ELSE IF payment_type = "monthly"
            THEN monthly_paid(profile,
                    [consecutive_months_paid |->
                         profile.consecutive_months_paid + 1,
                     months_late |-> 0,
                     stripe_subscription_id |-> "sub",
                     updated_at |-> now], 500)
            ELSE IF payment_type = "installment"
            THEN IF paid_installment.raised # ""
                 THEN Failed(500, paid_installment.raised)
                 ELSE Committed(profiles, contributions,
                                paid_installment.result)
            ELSE Committed(profiles, contributions, repayment_installments)
    IN  /\ profiles' = outcome.profiles
        /\ contributions' = outcome.contributions
        /\ repayment_installments' = outcome.repayment_installments
        /\ Called([op |-> "verify_payment", user_id |-> user_id,
                   retrieved |-> retrieved,
                   payment_type |-> payment_type,
                   payment_status |-> payment_status,
                   status_code |-> outcome.status_code,
                   raised |-> outcome.raised], outcome.committed)
        /\ UNCHANGED <<upgrades, next_upgrade_id, payments_since, requests,
                       repayments>>

\* POST /webhook with a Stripe event: profile_id is the profile_id of the
\* subscription's metadata, None when the invoice has no subscription or the
\* subscription no such metadata.
stripe_webhook(event_type, profile_id) ==
    LET found == {p \in profiles : p.id = profile_id}
        profile == CHOOSE p \in found : TRUE
        new_late == profile.months_late + 1
        late ==
            UpdateWhereId(profiles, ProfilesColumns, profile.id,
                [months_late |-> new_late,
                 account_status |->
                     IF new_late >= 3 THEN "paused"
                     ELSE profile.account_status,
                 consecutive_months_paid |->
                     IF new_late >= 3 THEN 0
                     ELSE profile.consecutive_months_paid,
                 updated_at |-> now])
        outcome ==
            IF event_type \notin {"invoice.paid", "invoice.payment_failed"}
            THEN Answered
            ELSE IF profile_id = None \/ found = {} THEN Answered
            ELSE IF event_type = "invoice.paid"
            THEN monthly_paid(profile,
                    [consecutive_months_paid |->
                         profile.consecutive_months_paid + 1,
                     months_late |-> 0,
                     updated_at |-> now], 400)
            ELSE IF late.raised # "" THEN Failed(400, late.raised)
            ELSE Committed(late.result, contributions, repayment_installments)
    IN  /\ profiles' = outcome.profiles
        /\ contributions' = outcome.contributions
        /\ repayment_installments' = outcome.repayment_installments
        /\ Called([op |-> "stripe_webhook",
                   user_id |-> IF found = {} THEN "" ELSE profile.user_id,
                   event_type |-> event_type, profile_id |-> profile_id,
                   status_code |-> outcome.status_code,
                   raised |-> outcome.raised], outcome.committed)
        /\ UNCHANGED <<upgrades, next_upgrade_id, payments_since, requests,
                       repayments>>

PaymentTypes == {"join_fee", "monthly", "installment"}
PaymentStatuses == {"paid", "unpaid"}
EventTypes == {"invoice.paid", "invoice.payment_failed", "customer.created"}
ProfileIds == {None, 1, 3}
InstallmentIds == {1, 2}
\* The router runs stop when the clock reaches MaxRouterTime.
MaxRouterTime == 4

\* Members with profiles and one repayment of u1 with an installment due.
InitPayments ==
    /\ profiles = {Profile(1, "u1", "A"), Profile(2, "u2", "B")}
    /\ upgrades = {}
    /\ next_upgrade_id = 1
    /\ now = 1
    /\ last = NoCall
    /\ prev = [profiles |-> profiles, upgrades |-> upgrades]
    /\ commit_failures = 0
    /\ payments_since = [m \in UserIds |-> 0]
    /\ inflight = [c \in Coroutines |-> Idle]
    /\ verified = NotRecorded
    /\ contributions = {}
    /\ requests = {}
    /\ repayments =
          {[id |-> 1, user_id |-> "u1", request_id |-> 1,
            total_to_repay |-> 8500, installments |-> 1,
            installment_amount |-> 8500, paid_installments |-> 0,
            status |-> "active", next_due_date |-> 20240310,
            created_at |-> 0, updated_at |-> 0]}
    /\ repayment_installments =
          {[id |-> 1, user_id |-> "u1", repayment_id |-> 1,
            installment_number |-> 1, amount |-> 8500,
            due_date |-> 20240310, paid_date |-> None,
            status |-> "pending", stripe_payment_id |-> "",
            created_at |-> 0]}

VerifyPayment ==
    /\ now < MaxRouterTime
    /\ \E user_id \in UserIds, retrieved \in BOOLEAN,
          payment_type \in PaymentTypes, payment_status \in PaymentStatuses :
          \E installment_id \in
                IF payment_type = "installment" THEN InstallmentIds
                ELSE {None} :
              verify_payment(user_id, retrieved, payment_type, payment_status,
                             installment_id)

StripeWebhook ==
    /\ now < MaxRouterTime
    /\ \E event_type \in EventTypes, profile_id \in ProfileIds :
          stripe_webhook(event_type, profile_id)

RequestUpgradeOfPayer ==
    /\ now < MaxRouterTime
    /\ \E user_id \in UserIds, to_class \in ToClasses :
          request_class_upgrade(user_id, to_class, "none")
    /\ UNCHANGED router_tables

NextPayments == RequestUpgradeOfPayer \/ VerifyPayment \/ StripeWebhook

SpecPayments == InitPayments /\ [][NextPayments]_vars

\* --------------------------------------------------------- routers/admin.py
\* Columns of the mapped classes Requests and Repayments.
RequestsColumns ==
    {"id", "user_id", "profile_id", "request_type", "requested_amount",
     "approved_amount", "status", "payout_type", "payout_recipient_name",
     "payout_recipient_account", "description", "admin_notes", "created_at",
     "updated_at"}
RepaymentsColumns ==
    {"id", "user_id", "request_id", "total_to_repay", "installments",
     "installment_amount", "paid_installments", "status", "next_due_date",
     "created_at", "updated_at"}
\* Names the module models.repayment_installments defines.
Repayment_installmentsNames == {"Repayment_installments"}
\* `from module import name`
ImportFrom(names, name) ==
    IF name \in names THEN Returned(name) ELSE Raised("ImportError")

\* Rows of table admins, which no handler modelled here writes.
AdminsRows == {[id |-> 1, user_id |-> "admin"]}

\* `date + timedelta(days=k)`, k >= 0
RECURSIVE AddDays(_, _)
AddDays(date, k) ==
    IF date.d + k <= DaysInMonth(date.y, date.m)
    THEN [date EXCEPT !.d = @ + k]
    ELSE AddDays([y |-> IF date.m = 12 THEN date.y + 1 ELSE date.y,
                  m |-> IF date.m = 12 THEN 1 ELSE date.m + 1,
                  d |-> 1],
                 k - (DaysInMonth(date.y, date.m) - date.d + 1))

\* An admin handler that ends in an exception: nothing is committed.
AdminFailed(status_code, raised) ==
    [status_code |-> status_code, raised |-> raised, committed |-> FALSE,
     requests |-> requests, repayments |-> repayments,
     repayment_installments |-> repayment_installments]

\* An admin handler that reaches `await db.commit()` with these tables.
AdminCommitted(new_requests, new_repayments, new_installments) ==
    [status_code |-> 200, raised |-> "", committed |-> TRUE,
     requests |-> new_requests, repayments |-> new_repayments,
     repayment_installments |-> new_installments]

\* Lines 249-258: installments i..12 added to rows, each flushed at commit.
RECURSIVE add_installments(_, _, _, _, _)
add_installments(rows, repayment_id, installment_amount, today, i) ==
    IF i > 12 THEN Returned(rows)
    ELSE
    LET installment ==
            Construct(Repayment_installmentsColumns,
                [repayment_id |-> repayment_id, installment_number |-> i,
                 amount |-> installment_amount,
                 due_date |-> StrfTime(AddDays(today, 30 * i)),
                 status |-> "pending"])
        added == Insert(rows, installment.result, {"user_id"})
    IN  IF installment.raised # "" THEN installment
        ELSE IF added.raised # "" THEN added
        ELSE add_installments(added.result, repayment_id, installment_amount,
                              today, i + 1)

\* a guard that stops rejected requests only
not_pending_only_rejected(request) == request.status = "rejected"

\* `if request.status != "pending":`
not_pending(request) == request.status # "pending"

\* The status of the request a handler was called for, "" when there is none.
StatusOfRequest(request_id) ==
    IF \E r \in requests : r.id = request_id
    THEN (CHOOSE r \in requests : r.id = request_id).status ELSE ""

\* POST /requests/approve by user_id on the day `today`.  Amounts: the
\* unrounded total in hundredths of a cent, the unrounded installment as the
\* fraction num/den of a cent.
approve_request(user_id, request_id, approved_amount, today) ==
    LET admin_rows == {a \in AdminsRows : a.user_id = user_id}
        admin == CHOOSE a \in admin_rows : TRUE
        found == {r \in requests : r.id = request_id}
        request == CHOOSE r \in found : TRUE
        updated ==
            UpdateWhereId(requests, RequestsColumns, request_id,
                [status |-> "approved", approved_amount |-> approved_amount,
                 admin_notes |-> "", approved_by |-> admin.id,
                 approved_at |-> now])
        total_to_repay == approved_amount * 102
        installment_amount == [num |-> total_to_repay, den |-> 100 * 12]
        repayment ==
            Construct(RepaymentsColumns,
                [profile_id |-> request.profile_id, request_id |-> request_id,
                 total_to_repay |-> total_to_repay,
                 installment_amount |-> installment_amount,
                 installments |-> 12, paid_installments |-> 0,
                 status |-> "active", next_due_date |-> StrfTime(today),
                 created_at |-> now])
        flushed == Insert(repayments, repayment.result, {"user_id"})
        imported ==
            ImportFrom(Repayment_installmentsNames, "RepaymentInstallments")
        installments ==
            add_installments(repayment_installments, NextId(repayments),
                             installment_amount, today, 1)
        outcome ==
            IF admin_rows = {} THEN AdminFailed(403, "HTTPException 403")
            ELSE IF found = {} THEN AdminFailed(404, "HTTPException 404")
            ELSE IF not_pending(request)
            THEN AdminFailed(400, "HTTPException 400")
            ELSE IF updated.raised # "" THEN AdminFailed(500, updated.raised)
            ELSE IF repayment.raised # ""
            THEN AdminFailed(500, repayment.raised)
            ELSE IF flushed.raised # "" THEN AdminFailed(500, flushed.raised)
            ELSE IF imported.raised # ""
            THEN AdminFailed(500, imported.raised)
            ELSE IF installments.raised # ""
            THEN AdminFailed(500, installments.raised)
            ELSE AdminCommitted(updated.result, flushed.result,
                                installments.result)
    IN  /\ requests' = outcome.requests
        /\ repayments' = outcome.repayments
        /\ repayment_installments' = outcome.repayment_installments
        /\ Called([op |-> "approve_request", user_id |-> user_id,
                   request_id |-> request_id,
                   request_status |-> StatusOfRequest(request_id),
                   approved_amount |-> approved_amount, today |-> today,
                   status_code |-> outcome.status_code,
                   raised |-> outcome.raised], outcome.committed)
        /\ UNCHANGED <<profiles, upgrades, next_upgrade_id, payments_since,
                       contributions>>

\* POST /requests/reject by user_id.
reject_request(user_id, request_id) ==
    LET admin_rows == {a \in AdminsRows : a.user_id = user_id}
        admin == CHOOSE a \in admin_rows : TRUE
        found == {r \in requests : r.id = request_id}
        request == CHOOSE r \in found : TRUE
        updated ==
            UpdateWhereId(requests, RequestsColumns, request_id,
                [status |-> "rejected", admin_notes |-> "",
                 approved_by |-> admin.id, approved_at |-> now])
        outcome ==
            IF admin_rows = {} THEN AdminFailed(403, "HTTPException 403")
            ELSE IF found = {} THEN AdminFailed(404, "HTTPException 404")
            ELSE IF not_pending(request)
            THEN AdminFailed(400, "HTTPException 400")
            ELSE IF updated.raised # "" THEN AdminFailed(500, updated.raised)
            ELSE AdminCommitted(updated.result, repayments,
                                repayment_installments)
    IN  /\ requests' = outcome.requests
        /\ repayments' = outcome.repayments
        /\ repayment_installments' = outcome.repayment_installments
        /\ Called([op |-> "reject_request", user_id |-> user_id,
                   request_id |-> request_id,
                   request_status |-> StatusOfRequest(request_id),
                   status_code |-> outcome.status_code,
                   raised |-> outcome.raised], outcome.committed)
        /\ UNCHANGED <<profiles, upgrades, next_upgrade_id, payments_since,
                       contributions>>

AdminCallers == {"admin", "u1"}
RequestIds == {1, 2, 3}
RequestStatuses == {"pending", "approved", "rejected"}
ApprovalDates == {Date(2024, 1, 31), Date(2024, 11, 15)}
Request(id, user_id, profile_id, requested_amount, status) ==
    [id |-> id, user_id |-> user_id, profile_id |-> profile_id,
     requested_amount |-> requested_amount, approved_amount |-> None,
     status |-> status, admin_notes |-> "", created_at |-> 0,
     updated_at |-> 0]

\* Two members, each with a request some admin may already have decided.
InitAdmin ==
    /\ profiles = {Profile(1, "u1", "A"), Profile(2, "u2", "B")}
    /\ upgrades = {}
    /\ next_upgrade_id = 1
    /\ now = 1
    /\ last = NoCall
    /\ prev = [profiles |-> profiles, upgrades |-> upgrades]
    /\ commit_failures = 0
    /\ payments_since = [m \in UserIds |-> 0]
    /\ inflight = [c \in Coroutines |-> Idle]
    /\ verified = NotRecorded
    /\ contributions = {}
    /\ \E s1 \in RequestStatuses, s2 \in RequestStatuses :
          requests = {Request(1, "u1", 1, 100000, s1),
                      Request(2, "u2", 2, 12345, s2)}
    /\ repayments = {}
    /\ repayment_installments = {}

ApproveRequest ==
    \E user_id \in AdminCallers, request_id \in RequestIds,
       approved_amount \in ApprovedAmounts, today \in ApprovalDates :
        approve_request(user_id, request_id, approved_amount, today)

RejectRequest ==
    \E user_id \in AdminCallers, request_id \in RequestIds :
        reject_request(user_id, request_id)

NextAdmin == ApproveRequest \/ RejectRequest

SpecAdmin == InitAdmin /\ [][NextAdmin]_vars

\* ------------------------------------ routers/repayment_installments.py
\* Repayment_installmentsService.get_by_id(obj_id, user_id): matching rows.
Repayment_installmentsService_get_by_id(rows, obj_id, user_id) ==
    {r \in rows : r.id = obj_id /\ OwnerFilter(r, user_id)}

\* Repayment_installmentsService.update(obj_id, update_data, user_id): the
\* rows after it; every key that is an attribute, user_id excepted, is set.
Repayment_installmentsService_update(rows, obj_id, update_data, user_id) ==
    LET found == Repayment_installmentsService_get_by_id(rows, obj_id, user_id)
    IN  { IF r \in found
            THEN [f \in DOMAIN r |->
                    IF f \in DOMAIN update_data /\ f # "user_id"
                      THEN update_data[f] ELSE r[f]]
            ELSE r : r \in rows }

\* Repayment_installmentsService.create(data, user_id): the rows after it.
Repayment_installmentsService_create(rows, data, user_id) ==
    LET with_owner ==
            IF user_id = "" THEN data
            ELSE [f \in DOMAIN data \cup {"user_id"} |->
                     IF f = "user_id" THEN user_id ELSE data[f]]
        obj == Construct(Repayment_installmentsColumns, with_owner)
    IN  IF obj.raised # "" THEN obj
        ELSE Insert(rows, obj.result, {"user_id"})

\* PUT /entities/repayment_installments/{id} by user_id with a body that
\* gives status only: the other fields are None and are left out.
update_repayment_installments(user_id, id, status) ==
    LET update_dict == [status |-> status]
        found == Repayment_installmentsService_get_by_id(
                     repayment_installments, id, user_id)
    IN  /\ repayment_installments' =
              Repayment_installmentsService_update(
                  repayment_installments, id, update_dict, user_id)
        /\ Called([op |-> "update_repayment_installments",
                   user_id |-> user_id, id |-> id, status |-> status,
                   status_code |-> IF found = {} THEN 404 ELSE 200,
                   raised |-> IF found = {} THEN "HTTPException 404" ELSE ""],
                  found # {})
        /\ UNCHANGED <<profiles, upgrades, next_upgrade_id, payments_since,
                       contributions, requests, repayments>>

\* POST /entities/repayment_installments by user_id: data.model_dump() has
\* every field of the schema, None where the body gives none.
create_repayment_installments(user_id, status) ==
    LET data == [repayment_id |-> 1, installment_number |-> 2,
                 amount |-> 8500, due_date |-> 20240410, paid_date |-> None,
                 status |-> status, stripe_payment_id |-> "",
                 created_at |-> now]
        created == Repayment_installmentsService_create(
                       repayment_installments, data, user_id)
    IN  /\ repayment_installments' =
              IF created.raised # "" THEN repayment_installments
              ELSE created.result
        /\ Called([op |-> "create_repayment_installments",
                   user_id |-> user_id, status |-> status,
                   status_code |-> IF created.raised # "" THEN 500 ELSE 201,
                   raised |-> created.raised], created.raised = "")
        /\ UNCHANGED <<profiles, upgrades, next_upgrade_id, payments_since,
                       contributions, requests, repayments>>

\* u1 with a repayment, one installment due, and a pending request.
InitInstallments ==
    /\ profiles = {Profile(1, "u1", "A"), Profile(2, "u2", "B")}
    /\ upgrades = {}
    /\ next_upgrade_id = 1
    /\ now = 1
    /\ last = NoCall
    /\ prev = [profiles |-> profiles, upgrades |-> upgrades]
    /\ commit_failures = 0
    /\ payments_since = [m \in UserIds |-> 0]
    /\ inflight = [c \in Coroutines |-> Idle]
    /\ verified = NotRecorded
    /\ contributions = {}
    /\ requests = {Request(1, "u1", 1, 100000, "pending")}
    /\ repayments =
          {[id |-> 1, user_id |-> "u1", request_id |-> 1,
            total_to_repay |-> 8500, installments |-> 1,
            installment_amount |-> 8500, paid_installments |-> 0,
            status |-> "active", next_due_date |-> 20240310,
            created_at |-> 0, updated_at |-> 0]}
    /\ repayment_installments =
          {[id |-> 1, user_id |-> "u1", repayment_id |-> 1,
            installment_number |-> 1, amount |-> 8500,
            due_date |-> 20240310, paid_date |-> None,
            status |-> "pending", stripe_payment_id |-> "",
            created_at |-> 0]}

VerifyInstallmentPayment ==
    /\ now < MaxRouterTime
    /\ \E user_id \in UserIds, payment_status \in PaymentStatuses,
          installment_id \in InstallmentIds :
          verify_payment(user_id, TRUE, "installment", payment_status,
                         installment_id)

ApprovePlan ==
    /\ now < MaxRouterTime
    /\ \E request_id \in RequestIds, today \in ApprovalDates :
          approve_request("admin", request_id, 100000, today)

UpdateInstallment ==
    /\ now < MaxRouterTime
    /\ \E user_id \in UserIds, id \in InstallmentIds,
          status \in InstallmentStatuses :
          update_repayment_installments(user_id, id, status)

CreateInstallment ==
    /\ now < MaxRouterTime
    /\ \E user_id \in Members, status \in InstallmentStatuses :
          create_repayment_installments(user_id, status)

NextInstallments ==
    \/ VerifyInstallmentPayment
    \/ ApprovePlan
    \/ UpdateInstallment
    \/ CreateInstallment

SpecInstallments == InitInstallments /\ [][NextInstallments]_vars

\* ------------------------- request_class_upgrade, one await at a time
\* Each coroutine runs one call; a step is what the call does when the
\* awaited service call returns, up to the next await.
Finished(c, raised, success) ==
    inflight' = [inflight EXCEPT ![c].pc = "done", ![c].raised = raised,
                                 ![c].success = success]

\* What a step leaves alone besides the tables it names.
StepFrame ==
    UNCHANGED <<last, prev, commit_failures, payments_since, router_tables,
                verified>>

\* The call is made: it awaits profiles_service.get_list (line 83).
BeginRequest(c) ==
    /\ inflight[c].pc = "idle"
    /\ \E user_id \in UserIds, to_class \in ToClasses :
          inflight' = [inflight EXCEPT ![c].pc = "get_profile",
                                       ![c].user_id = user_id,
                                       ![c].to_class = to_class]
    /\ UNCHANGED <<profiles, upgrades, next_upgrade_id, now>>
    /\ StepFrame

\* Lines 83-94: the profile arrives; the call raises or goes on to await
\* upgrades_service.get_list.
GetProfile(c) ==
    /\ inflight[c].pc = "get_profile"
    /\ LET profile_list == ProfilesService_get_list(profiles, inflight[c].user_id)
       IN  IF profile_list = <<>> THEN Finished(c, MsgNoProfile, FALSE)
           ELSE IF is_downgrade(inflight[c].to_class,
                                profile_list[1].membership_class)
           THEN Finished(c, MsgDowngrade, FALSE)
           ELSE inflight' =
                  [inflight EXCEPT
                     ![c].pc = "get_pending",
                     ![c].profile_id = profile_list[1].id,
                     ![c].from_class = profile_list[1].membership_class]
    /\ UNCHANGED <<profiles, upgrades, next_upgrade_id, now>>
    /\ StepFrame

\* Lines 97-114: the pending list arrives; the call raises or goes on to
\* await upgrades_service.create.
GetPending(c) ==
    /\ inflight[c].pc = "get_pending"
    /\ LET existing_upgrades ==
               Class_upgradesService_get_list(upgrades, inflight[c].user_id,
                                              "pending")
       IN  IF has_items(existing_upgrades)
           THEN Finished(c, MsgPendingExists, FALSE)
           ELSE inflight' = [inflight EXCEPT ![c].pc = "create"]
    /\ UNCHANGED <<profiles, upgrades, next_upgrade_id, now>>
    /\ StepFrame

\* Line 116: the row is created and committed; the call goes on to await
\* profiles_service.update.
CreateUpgrade(c) ==
    /\ inflight[c].pc = "create"
    /\ now < MaxTime
    /\ LET upgrade_data ==
               [user_id |-> inflight[c].user_id,
                profile_id |-> inflight[c].profile_id,
                from_class |-> inflight[c].from_class,
                to_class |-> inflight[c].to_class,
                status |-> "pending", payments_in_new_class |-> 0,
                requested_at |-> now]
           upgrade == Class_upgradesService_create(
                          upgrade_data, inflight[c].user_id, next_upgrade_id)
       IN  /\ upgrades' = upgrades \cup {upgrade}
           /\ inflight' = [inflight EXCEPT ![c].pc = "update_profile",
                                           ![c].upgrade_id = upgrade.id]
    /\ next_upgrade_id' = next_upgrade_id + 1
    /\ now' = now + 1
    /\ UNCHANGED profiles
    /\ StepFrame

\* Lines 119-132: the profile is updated and the call returns.
UpdateProfileClass(c) ==
    /\ inflight[c].pc = "update_profile"
    /\ now < MaxTime
    /\ profiles' = ProfilesService_update(profiles, inflight[c].profile_id,
                      [membership_class |-> inflight[c].to_class,
                       updated_at |-> now], inflight[c].user_id)
    /\ Finished(c, "", TRUE)
    /\ now' = now + 1
    /\ UNCHANGED <<upgrades, next_upgrade_id>>
    /\ StepFrame

NextInterleaved ==
    \E c \in Coroutines :
        \/ BeginRequest(c)
        \/ GetProfile(c)
        \/ GetPending(c)
        \/ CreateUpgrade(c)
        \/ UpdateProfileClass(c)

SpecInterleaved == Init /\ [][NextInterleaved]_vars

\* ------------------------------- a member pays, then asks for eligibility
\* Two members who have just registered; the run keeps the record of the
\* sessions they have verified.
InitJourney ==
    /\ \E c \in Classes :
          profiles = {ProfileWith(1, "u1", c, "pending", 0, 0),
                      ProfileWith(2, "u2", "B", "pending", 0, 0)}
    /\ upgrades = {}
    /\ next_upgrade_id = 1
    /\ now = 1
    /\ last = NoCall
    /\ prev = [profiles |-> profiles, upgrades |-> upgrades]
    /\ commit_failures = 0
    /\ payments_since = [m \in UserIds |-> 0]
    /\ inflight = [c \in Coroutines |-> Idle]
    /\ verified = NothingVerified
    /\ NoRouterRows

\* A member sends the session of a join-fee or monthly checkout.
VerifyMemberPayment ==
    /\ now < MaxRouterTime
    /\ \E user_id \in Members, payment_type \in {"join_fee", "monthly"},
          payment_status \in PaymentStatuses :
          verify_payment(user_id, TRUE, payment_type, payment_status, None)

\* Stripe reports a failed invoice of a member's subscription.
InvoicePaymentFailed ==
    /\ now < MaxRouterTime
    /\ \E p \in profiles : stripe_webhook("invoice.payment_failed", p.id)

NextJourney ==
    \/ VerifyMemberPayment
    \/ InvoicePaymentFailed
    \/ CheckEligibility

SpecJourney == InitJourney /\ [][NextJourney]_vars

\* ------------------------------------- Class_upgradesService, call by call
\* What a service call gave back: for get_by_id and update the object as a
\* set of at most one row (empty for None), for delete the boolean.
ServiceCall(op, obj_id, update_data, user_id, returned) ==
    [op |-> op, obj_id |-> obj_id, update_data |-> update_data,
     user_id |-> user_id, returned |-> returned, raised |-> ""]

\* The callers' user_id argument; "" stands for None, no ownership asked.
ServiceCallers == UserIds \cup {""}
UpgradeIds == {1, 2, 3}
UpdateDatas ==
    {[status |-> "active"],
     [user_id |-> "u2", payments_in_new_class |-> 2],
     [user_id |-> "u1", to_class |-> "D"],
     [owner |-> "u1"]}

\* One upgrade of each member; no row has id 3.
InitUpgradesService ==
    /\ profiles = {Profile(1, "u1", "A"), Profile(2, "u2", "B")}
    /\ upgrades =
          {Class_upgradesService_create(
               [profile_id |-> 1, from_class |-> "A", to_class |-> "B",
                status |-> "pending", payments_in_new_class |-> 0,
                requested_at |-> 0], "u1", 1),
           Class_upgradesService_create(
               [profile_id |-> 2, from_class |-> "B", to_class |-> "C",
                status |-> "pending", payments_in_new_class |-> 1,
                requested_at |-> 0], "u2", 2)}
    /\ next_upgrade_id = 3
    /\ now = 1
    /\ last = NoCall
    /\ prev = [profiles |-> profiles, upgrades |-> upgrades]
    /\ commit_failures = 0
    /\ payments_since = [m \in UserIds |-> 0]
    /\ inflight = [c \in Coroutines |-> Idle]
    /\ verified = NotRecorded
    /\ NoRouterRows

\* What a service call leaves alone besides table class_upgrades.
ServiceFrame ==
    /\ UNCHANGED <<profiles, next_upgrade_id, payments_since>>
    /\ UNCHANGED router_tables

GetById ==
    \E obj_id \in UpgradeIds, user_id \in ServiceCallers :
        LET found == Class_upgradesService_get_by_id(upgrades, obj_id, user_id)
        IN  /\ Called(ServiceCall("get_by_id", obj_id, <<>>, user_id, found),
                      FALSE)
            /\ UNCHANGED upgrades
            /\ ServiceFrame

\* update returns None before any write when get_by_id finds nothing;
\* otherwise it commits and returns the refreshed object.
Update ==
    \E obj_id \in UpgradeIds, user_id \in ServiceCallers,
       update_data \in UpdateDatas :
        LET found == Class_upgradesService_get_by_id(upgrades, obj_id, user_id)
            rows == Class_upgradesService_update(upgrades, obj_id,
                                                 update_data, user_id)
        IN  /\ upgrades' = rows
            /\ Called(ServiceCall("update", obj_id, update_data, user_id,
                                  {u \in rows : u.id = obj_id /\ found # {}}),
                      found # {})
            /\ ServiceFrame

\* delete returns False before any write when get_by_id finds nothing.
Delete ==
    \E obj_id \in UpgradeIds, user_id \in ServiceCallers :
        LET found == Class_upgradesService_get_by_id(upgrades, obj_id, user_id)
        IN  /\ upgrades' = Class_upgradesService_delete(upgrades, obj_id,
                                                        user_id)
            /\ Called(ServiceCall("delete", obj_id, <<>>, user_id,
                                  found # {}), found # {})
            /\ ServiceFrame

NextUpgradesService == GetById \/ Update \/ Delete

SpecUpgradesService == InitUpgradesService /\ [][NextUpgradesService]_vars

\* =================================================================== claims
\* Vocabulary of the claims, independent of the operators above.
RowsOf(rows, m) == {r \in rows : r.user_id = m}
PendingOf(rows, m) == {r \in RowsOf(rows, m) : r.status = "pending"}
ActiveOf(rows, m) == {r \in RowsOf(rows, m) : r.status = "active"}
HasProfile(rows, m) == RowsOf(rows, m) # {}
ClassOf(rows, m) == (CHOOSE p \in RowsOf(rows, m) : TRUE).membership_class
\* x ranks strictly higher than y in A < B < C < D
Higher(x, y) ==
    <<y, x>> \in {<<"A", "B">>, <<"A", "C">>, <<"A", "D">>,
                  <<"B", "C">>, <<"B", "D">>, <<"C", "D">>}
NothingWritten == upgrades = prev.upgrades /\ profiles = prev.profiles
IsRequest == last.op = "request_class_upgrade"
IsPayment == last.op = "process_monthly_payment"

\* C1: after any sequence of request_class_upgrade and
\* process_monthly_payment calls, run one at a time, every member has at most
\* one upgrade row with status pending.
C1_AtMostOnePending ==
    \A m \in UserIds : Cardinality(PendingOf(upgrades, m)) <= 1

\* A member with an activated upgrade and a new pending one.
C1_Witness ==
    \E m \in UserIds :
        /\ Cardinality(PendingOf(upgrades, m)) = 1
        /\ ActiveOf(upgrades, m) # {}

\* C2: request_class_upgrade for a member with a pending upgrade raises the
\* "pending upgrade exists" error whenever to_class is higher than the current
\* class, and fails in every case; the failure writes no upgrade row and
\* leaves the profile as it was.
C2_PendingConflict ==
    (IsRequest /\ PendingOf(prev.upgrades, last.user_id) # {}) =>
        /\ ~last.success
        /\ last.raised # ""
        /\ NothingWritten
        /\ Higher(last.to_class, ClassOf(prev.profiles, last.user_id))
              => last.raised = MsgPendingExists

C2_Witness ==
    /\ IsRequest
    /\ PendingOf(prev.upgrades, last.user_id) # {}
    /\ Higher(last.to_class, ClassOf(prev.profiles, last.user_id))
    /\ last.raised = MsgPendingExists

\* C3: request_class_upgrade with a to_class that does not rank strictly
\* higher than the member's class (same, lower, or outside A..D) raises the
\* invalid-upgrade error, writes no upgrade row and leaves the class as it was.
C3_InvalidUpgrade ==
    ( /\ IsRequest
      /\ HasProfile(prev.profiles, last.user_id)
      /\ ~Higher(last.to_class, ClassOf(prev.profiles, last.user_id)) ) =>
        /\ last.raised = MsgDowngrade
        /\ ~last.success
        /\ NothingWritten

\* A request for a class outside A..D by a member who has upgrade rows.
C3_Witness ==
    /\ IsRequest
    /\ last.to_class \notin Classes
    /\ RowsOf(upgrades, last.user_id) # {}
    /\ last.raised = MsgDowngrade

\* C4: a successful request_class_upgrade adds exactly one upgrade row, with
\* status pending, payments_in_new_class 0, from_class the member's class
\* before the call and to_class strictly higher, and the member's class is
\* to_class when the call returns.
C4_SuccessfulRequest ==
    (IsRequest /\ last.success) =>
        /\ prev.upgrades \subseteq upgrades
        /\ \E r \in upgrades :
             /\ upgrades \ prev.upgrades = {r}
             /\ r.id = last.upgrade_id
             /\ r.user_id = last.user_id
             /\ r.status = "pending"
             /\ r.payments_in_new_class = 0
             /\ r.activated_at = None
             /\ r.from_class = ClassOf(prev.profiles, last.user_id)
             /\ r.to_class = last.to_class
             /\ Higher(r.to_class, r.from_class)
        /\ ClassOf(profiles, last.user_id) = last.to_class
        /\ \A m \in Members \ {last.user_id} :
             RowsOf(profiles, m) = RowsOf(prev.profiles, m)

\* A successful request of a member who already has an activated upgrade.
C4_Witness ==
    /\ IsRequest
    /\ last.success
    /\ ActiveOf(prev.upgrades, last.user_id) # {}

\* C5: request_class_upgrade is atomic over its two writes, also when a
\* commit raises: after a call either the new pending row exists and the
\* member's class is its to_class, or nothing was written; a pending row's
\* to_class is always the member's class.
C5_AtomicRequest ==
    /\ \A r \in upgrades :
          r.status = "pending" => ClassOf(profiles, r.user_id) = r.to_class
    /\ IsRequest =>
          \/ NothingWritten
          \/ /\ \E r \in upgrades \ prev.upgrades :
                   r.status = "pending" /\ r.to_class = last.to_class
             /\ ClassOf(profiles, last.user_id) = last.to_class

\* C6: a process_monthly_payment call for a member with a pending upgrade
\* adds exactly 1 to that row's payments_in_new_class and changes no other
\* upgrade row and no profile.
C6_PaymentCounts ==
    (IsPayment /\ PendingOf(prev.upgrades, last.user_id) # {}) =>
        /\ profiles = prev.profiles
        /\ \E t \in PendingOf(prev.upgrades, last.user_id) :
           \E t2 \in upgrades :
             /\ t2.id = t.id
             /\ t2.payments_in_new_class = t.payments_in_new_class + 1
             /\ t2.user_id = t.user_id
             /\ t2.from_class = t.from_class
             /\ t2.to_class = t.to_class
             /\ t2.requested_at = t.requested_at
             /\ upgrades \ {t2} = prev.upgrades \ {t}

\* A payment for a pending upgrade of a member who also has an activated one,
\* while the other member has a pending upgrade too.
C6_Witness ==
    /\ IsPayment
    /\ PendingOf(prev.upgrades, last.user_id) # {}
    /\ ActiveOf(prev.upgrades, last.user_id) # {}
    /\ \E m \in Members \ {last.user_id} : PendingOf(prev.upgrades, m) # {}

\* The newest upgrade row of a member.
NewestOf(rows, m) ==
    CHOOSE r \in RowsOf(rows, m) : \A q \in RowsOf(rows, m) : q.id <= r.id

\* C7: an upgrade created by request_class_upgrade stays pending, with no
\* activation reported, through the first and second process_monthly_payment
\* call; the third call makes it active, stamps activated_at and reports
\* upgrade_activated.
C7_ThirdPaymentActivates ==
    /\ \A m \in UserIds : RowsOf(upgrades, m) # {} =>
          LET r == NewestOf(upgrades, m)
          IN  /\ payments_since[m] \in 0..3
              /\ payments_since[m] < 3 =>
                    r.status = "pending" /\ r.activated_at = None
              /\ payments_since[m] = 3 =>
                    r.status = "active" /\ r.activated_at # None
    /\ (IsPayment /\ PendingOf(prev.upgrades, last.user_id) # {}) =>
          /\ last.success
          /\ last.upgrade_activated <=> payments_since[last.user_id] = 3

\* The third payment has just activated an upgrade.
C7_Witness ==
    /\ IsPayment
    /\ last.upgrade_activated
    /\ payments_since[last.user_id] = 3
    /\ NewestOf(upgrades, last.user_id).status = "active"

\* C8: the only status change of an upgrade row is pending to active: no call
\* deletes a row, gives it another status, or changes anything of a row that
\* is active.
C8_OnlyPendingToActive ==
    /\ \A r \in upgrades : r.status \in {"pending", "active"}
    /\ \A r \in prev.upgrades :
          \E r2 \in upgrades :
             /\ r2.id = r.id
             /\ r.status = "active" => r2 = r

\* A monthly payment of a member whose upgrade is already active.
C8_Witness ==
    /\ IsPayment
    /\ last.success
    /\ ActiveOf(prev.upgrades, last.user_id) # {}
    /\ PendingOf(prev.upgrades, last.user_id) = {}

\* C9: process_monthly_payment for a member with a profile and no pending
\* upgrade reports plain success, no activation, and writes nothing.
C9_NoPendingNoEffect ==
    ( /\ IsPayment
      /\ HasProfile(prev.profiles, last.user_id)
      /\ PendingOf(prev.upgrades, last.user_id) = {} ) =>
        /\ last.raised = ""
        /\ last.success
        /\ ~last.upgrade_activated
        /\ last.message = MsgPaymentProcessed
        /\ NothingWritten

\* A payment of a member without a pending upgrade while another member has
\* one that is two payments in.
C9_Witness ==
    /\ IsPayment
    /\ HasProfile(prev.profiles, last.user_id)
    /\ PendingOf(prev.upgrades, last.user_id) = {}
    /\ \E r \in prev.upgrades :
          r.status = "pending" /\ r.payments_in_new_class = 2

\* C10: process_monthly_payment for a user id without a profile returns
\* success = false with the not-found message, raises nothing and writes
\* nothing; for a member with a profile it returns success.
C10_NotFoundIsAValue ==
    IsPayment =>
        IF HasProfile(prev.profiles, last.user_id)
          THEN last.raised = "" /\ last.success
          ELSE /\ last.raised = ""
               /\ ~last.success
               /\ last.message = MsgNoProfile
               /\ NothingWritten

\* A payment for the user without a profile while upgrades are pending.
C10_Witness ==
    /\ IsPayment
    /\ ~HasProfile(prev.profiles, last.user_id)
    /\ \E r \in upgrades : r.status = "pending"
    /\ ~last.success

\* ------------------------------------------------------------ eligibility
IsEligibilityCheck == last.op = "check_eligibility"
\* The profile row of the member the last check was about.
CheckedProfile == CHOOSE p \in RowsOf(profiles, last.user_id) : TRUE
\* The class table of the specification: limit and monthly due.
SpecLimit == [A |-> 2000, B |-> 3000, C |-> 5000, D |-> 10000]
SpecMonthly == [A |-> 25, B |-> 50, C |-> 75, D |-> 100]
\* The rules of the specification on the stored profile fields.  No stored
\* field says whether the join fee is paid, so that rule is left out here.
MeetsRules(p) ==
    /\ p.consecutive_months_paid >= 6
    /\ p.months_late <= 2
    /\ p.account_status = "active"

\* C11: check_eligibility returns eligible = false with a reason whenever the
\* member has no profile, has fewer than 6 consecutive paid months, is more
\* than 2 months late, or has an account status other than active.
C11_FailsClosed ==
    ( /\ IsEligibilityCheck
      /\ \/ ~HasProfile(profiles, last.user_id)
         \/ ~MeetsRules(CheckedProfile) ) =>
        /\ last.raised = ""
        /\ last.result.eligible = FALSE
        /\ "reason" \in DOMAIN last.result

\* C12: for a profile with at least 6 paid months, at most 2 months late and
\* status active, check_eligibility returns eligible = true with the limit
\* of the member's class.
C12_EligibleWithLimit ==
    ( /\ IsEligibilityCheck
      /\ HasProfile(profiles, last.user_id)
      /\ MeetsRules(CheckedProfile) ) =>
        /\ last.raised = ""
        /\ last.result.eligible = TRUE
        /\ last.result.limit = SpecLimit[CheckedProfile.membership_class]

\* C13: the answer of check_eligibility for a member who meets the rules is
\* eligible = true and carries the monthly due of the member's class besides
\* the limit.
C13_EligibleWithMonthlyDue ==
    ( /\ IsEligibilityCheck
      /\ HasProfile(profiles, last.user_id)
      /\ MeetsRules(CheckedProfile) ) =>
        /\ last.raised = ""
        /\ last.result.eligible = TRUE
        /\ "limit" \in DOMAIN last.result
        /\ "monthly" \in DOMAIN last.result
        /\ last.result.monthly = SpecMonthly[CheckedProfile.membership_class]

\* ---- RepaymentCalculator claims (SpecCalculator)
IsPlanCall == last.op = "calculate_repayment_plan"
PlanReturned == IsPlanCall /\ last.raised = ""
IsOverdueCall == last.op = "check_overdue_installments"
Abs(x) == IF x < 0 THEN 0 - x ELSE x
\* x is an integer nearest to num / den (den > 0).
Nearest(x, num, den) == 2 * Abs(x * den - num) <= den

\* C16: calculate_repayment_plan fails with a ValueError (the invalid-argument
\* error) and returns no plan for every installments < 1 and every
\* installments > 12, and returns a plan for every installments in 1..12.
C16_InstallmentsRange ==
    IsPlanCall =>
        IF last.installments \in 1..12
        THEN /\ last.raised = ""
             /\ "schedule" \in DOMAIN last.result
             /\ last.result.installments = last.installments
        ELSE /\ last.raised = MsgInstallmentsRange
             /\ DOMAIN last.result = {}

C16_Witness ==
    /\ IsPlanCall
    /\ last.installments = 13
    /\ last.raised = MsgInstallmentsRange

\* C17: a returned plan has administrative_fee = 2% of approved_amount (two
\* hundredths of a cent per cent), total_to_repay = approved_amount plus that
\* fee (= approved_amount x 1.02) rounded to the cent, and installment_amount =
\* approved_amount x 1.02 / installments rounded to the cent; 1000.00 over 12
\* installments gives 1020.00 and 85.00.
C17_FeeAndAmounts ==
    PlanReturned =>
        LET c == last.approved_amount
            n == last.installments
            r == last.result
        IN  /\ r.administrative_fee = 2 * c
            /\ Nearest(r.total_to_repay, 100 * c + r.administrative_fee, 100)
            /\ Nearest(r.installment_amount, 102 * c, 100 * n)
            /\ (c = 100000 /\ n = 12) =>
                   (r.total_to_repay = 102000 /\ r.installment_amount = 8500)

C17_Witness ==
    /\ PlanReturned
    /\ last.approved_amount = 100000
    /\ last.installments = 12
    /\ last.result.total_to_repay = 102000

RECURSIVE ScheduleSum(_, _)
ScheduleSum(schedule, k) ==
    IF k = 0 THEN 0 ELSE schedule[k].amount + ScheduleSum(schedule, k - 1)

\* C18: in a returned plan the amounts of the schedule add up to
\* total_to_repay with a difference of at most one cent per installment.
C18_SumNearTotal ==
    PlanReturned =>
        LET r == last.result
        IN  Abs(ScheduleSum(r.schedule, Len(r.schedule)) - r.total_to_repay)
                <= last.installments

C18_Witness ==
    /\ PlanReturned
    /\ last.installments = 12
    /\ last.approved_amount = 12345
    /\ ScheduleSum(last.result.schedule, 12) # last.result.total_to_repay

\* Length of month m of year y.
MonthLength(y, m) ==
    IF m \in {1, 3, 5, 7, 8, 10, 12} THEN 31
    ELSE IF m # 2 THEN 30
    ELSE IF y \in {2020, 2024, 2028} THEN 29 ELSE 28

\* The text s (YYYY-MM-DD) names the day i calendar months after `from`, with
\* the day of the month kept where that month has it, its last day otherwise.
DueAfterMonths(s, from, i) ==
    LET y == s \div 10000
        m == (s \div 100) % 100
        d == s % 100
    IN  /\ m \in 1..12
        /\ y * 12 + m = from.y * 12 + from.m + i
        /\ d = IF from.d <= MonthLength(y, m) THEN from.d
               ELSE MonthLength(y, m)

\* C19: for installments = n in 1..12 the schedule has exactly n entries
\* numbered 1..n in order, all pending; entry i is due i calendar months after
\* the current date, so due dates strictly increase and the first is one month
\* from now; first_due_date and last_due_date are those of entries 1 and n.
C19_Schedule ==
    PlanReturned =>
        LET n == last.installments
            r == last.result
        IN  /\ Len(r.schedule) = n
            /\ \A i \in 1..n :
                /\ r.schedule[i].installment_number = i
                /\ r.schedule[i].status = "pending"
                /\ DueAfterMonths(r.schedule[i].due_date, last.current_date, i)
                /\ i > 1 => r.schedule[i - 1].due_date < r.schedule[i].due_date
            /\ r.first_due_date = r.schedule[1].due_date
            /\ r.last_due_date = r.schedule[n].due_date

C19_Witness ==
    /\ PlanReturned
    /\ last.installments = 12
    /\ last.current_date = Date(2024, 1, 30)
    /\ last.result.first_due_date = 20240229
    /\ last.result.last_due_date = 20250130

\* Positions of the installments of the argument whose status is pending.
PendingPositions ==
    {j \in 1..Len(last.installments) : last.installments[j].status = "pending"}
RECURSIVE AmountOver(_, _)
AmountOver(installments, positions) ==
    IF positions = {} THEN 0
    ELSE LET j == CHOOSE k \in positions : TRUE
         IN  installments[j].amount
               + AmountOver(installments, positions \ {j})

\* C20: check_overdue_installments reports only pending installments: every
\* entry of the overdue list is a pending installment of the argument, and no
\* installment with another status is counted or added to the overdue amount.
C20_OnlyPending ==
    IsOverdueCall =>
        LET r == last.result
        IN  /\ \A k \in 1..Len(r.overdue_installments) :
                 \E j \in PendingPositions :
                    LET e == r.overdue_installments[k]
                        inst == last.installments[j]
                    IN  /\ e.installment_number = inst.installment_number
                        /\ e.amount = inst.amount
                        /\ e.due_date = inst.due_date
            /\ r.overdue_count <= Cardinality(PendingPositions)
            /\ r.total_overdue_amount
                 <= AmountOver(last.installments, PendingPositions)

C20_Witness ==
    /\ IsOverdueCall
    /\ Len(last.installments) = 2
    /\ last.installments[1].status = "paid"
    /\ last.installments[1].due_date = 20240229
    /\ last.installments[2].status = "pending"
    /\ last.installments[2].due_date = 20240309
    /\ last.today = Date(2024, 3, 10)
    /\ last.result.overdue_count = 1


\* ---- routers/payments.py claims (SpecPayments)
\* The last call handled a successful monthly contribution charge: a paid
\* checkout session of type monthly, or the invoice.paid event of a member.
MonthlyChargeHandled ==
    \/ /\ last.op = "verify_payment"
       /\ last.retrieved
       /\ last.payment_type = "monthly"
       /\ last.payment_status = "paid"
    \/ /\ last.op = "stripe_webhook"
       /\ last.event_type = "invoice.paid"

\* C14: when verify_payment handles a paid session of type monthly, or the
\* webhook an invoice.paid event, for a member with a pending upgrade, the
\* upgrade's payment counter has advanced by one, and the upgrade is active
\* when that was its third payment.
C14_ChargeCountsForUpgrade ==
    MonthlyChargeHandled =>
        \A u \in PendingOf(prev.upgrades, last.user_id) :
            \E v \in upgrades :
                /\ v.id = u.id
                /\ v.payments_in_new_class = OrZero(u.payments_in_new_class) + 1
                /\ v.status = IF v.payments_in_new_class >= 3 THEN "active"
                              ELSE "pending"


\* ---- routers/admin.py claims (SpecAdmin)
\* The last call was an administrator approving a request that was pending.
PendingApproved ==
    /\ last.op = "approve_request"
    /\ \E a \in AdminsRows : a.user_id = last.user_id
    /\ last.request_status = "pending"

\* C15: after an administrator approves a pending request, a repayment row
\* of that request and its installment rows hold the plan that
\* calculate_repayment_plan(approved_amount) returns for the approval date:
\* the rounded total and installment amount, 12 installments, and for each
\* installment i the due date i calendar months after the approval.
C15_ApprovalPersistsPlan ==
    PendingApproved =>
        \E tie_total \in BOOLEAN, tie_inst \in BOOLEAN :
            LET plan == calculate_repayment_plan(last.approved_amount, 12,
                            last.today, tie_total, tie_inst).result
            IN  \E r \in repayments :
                    /\ r.request_id = last.request_id
                    /\ r.total_to_repay = 100 * plan.total_to_repay
                    /\ r.installment_amount.num =
                           plan.installment_amount * r.installment_amount.den
                    /\ r.installments = plan.installments
                    /\ \A i \in 1..plan.installments :
                         \E inst \in repayment_installments :
                            /\ inst.repayment_id = r.id
                            /\ inst.installment_number = i
                            /\ inst.due_date = plan.schedule[i].due_date


\* ---- check_overdue_installments claims, continued (SpecCalculator)
\* Today's date written as YYYY-MM-DD, to compare with due dates as texts.
TodayText == last.today.y * 10000 + last.today.m * 100 + last.today.d
\* Positions of the pending installments of the argument due before today.
LatePositions ==
    {j \in PendingPositions : last.installments[j].due_date < TodayText}

\* C21: a pending installment is in the overdue list exactly when its due
\* date is strictly before today: the list has one entry for each pending
\* installment due before today and none for one due today or later.
C21_StrictlyBeforeToday ==
    IsOverdueCall =>
        LET overdue == last.result.overdue_installments
        IN  /\ Len(overdue) = Cardinality(LatePositions)
            /\ \A k \in 1..Len(overdue) : overdue[k].due_date < TodayText
            /\ \A j \in LatePositions :
                 \E k \in 1..Len(overdue) :
                    /\ overdue[k].installment_number
                         = last.installments[j].installment_number
                    /\ overdue[k].due_date = last.installments[j].due_date

C21_Witness ==
    /\ IsOverdueCall
    /\ last.today = Date(2024, 3, 10)
    /\ Len(last.installments) = 2
    /\ last.installments[1].status = "pending"
    /\ last.installments[1].due_date = 20240310
    /\ last.installments[2].status = "pending"
    /\ last.installments[2].due_date = 20240309
    /\ last.result.overdue_count = 1
    /\ last.result.overdue_installments[1].due_date = 20240309

\* C22: overdue_count is the number of overdue entries, has_overdue says
\* whether there is one, each entry's days_overdue is the number of days, at
\* least 1, from its due date to today, and total_overdue_amount is the sum of
\* the entries' amounts; one pending installment due 10 days ago and one due
\* in 10 days give exactly one entry, with days_overdue = 10.
C22_OverdueReport ==
    IsOverdueCall =>
        LET r == last.result
            overdue == r.overdue_installments
        IN  /\ r.overdue_count = Len(overdue)
            /\ r.has_overdue = (r.overdue_count > 0)
            /\ \A k \in 1..Len(overdue) :
                 /\ overdue[k].days_overdue >= 1
                 /\ AddDays(StrpTime(overdue[k].due_date),
                            overdue[k].days_overdue) = last.today
            /\ r.total_overdue_amount = ScheduleSum(overdue, Len(overdue))
            /\ (/\ Len(last.installments) = 2
                /\ PendingPositions = {1, 2}
                /\ AddDays(StrpTime(last.installments[1].due_date), 10)
                     = last.today
                /\ AddDays(last.today, 10)
                     = StrpTime(last.installments[2].due_date))
               => (Len(overdue) = 1 /\ overdue[1].days_overdue = 10)

C22_Witness ==
    /\ IsOverdueCall
    /\ last.today = Date(2025, 1, 5)
    /\ Len(last.installments) = 2
    /\ PendingPositions = {1, 2}
    /\ last.installments[1].due_date = 20241226
    /\ last.installments[2].due_date = 20250115
    /\ last.result.overdue_count = 1
    /\ last.result.overdue_installments[1].days_overdue = 10


\* ---- installment lifecycle (SpecInstallments)
\* The call just made verified a paid checkout session of an installment.
InstallmentPaymentVerified ==
    /\ last'.op = "verify_payment"
    /\ last'.payment_type = "installment"
    /\ last'.payment_status = "paid"

\* C23: in every step, a new installment row has status pending; a row's
\* status changes only from pending to paid, in the verification of a paid
\* installment session, with the paid date recorded; no row goes from paid to
\* pending and no row has the status overdue.
C23_InstallmentLifecycle ==
    [][ /\ \A j \in repayment_installments' :
             /\ j.status # "overdue"
             /\ (\A i \in repayment_installments : i.id # j.id)
                   => j.status = "pending"
        /\ \A i \in repayment_installments, j \in repayment_installments' :
             (i.id = j.id /\ i.status # j.status) =>
                 /\ i.status = "pending"
                 /\ j.status = "paid"
                 /\ j.paid_date # None
                 /\ InstallmentPaymentVerified ]_vars


\* ---- upgrade counter and status (SpecFault)
\* C24: in every reachable state, also when a commit of the third payment
\* raises, an upgrade with status pending has payments_in_new_class in 0..2,
\* and an upgrade with status active has payments_in_new_class = 3 and
\* activated_at set.
C24_CounterMatchesStatus ==
    \A u \in upgrades :
        /\ u.status = "pending" => OrZero(u.payments_in_new_class) \in 0..2
        /\ u.status = "active" =>
              (u.payments_in_new_class = 3 /\ u.activated_at # None)


\* ---- interleaved request_class_upgrade calls (SpecInterleaved)
\* C25: when two request_class_upgrade calls for the same member have both
\* finished, however their awaits interleaved, at most one of them succeeded
\* and the member has at most one pending upgrade.
C25_OneRequestWins ==
    (/\ inflight[1].pc = "done"
     /\ inflight[2].pc = "done"
     /\ inflight[1].user_id = inflight[2].user_id) =>
        /\ ~(inflight[1].success /\ inflight[2].success)
        /\ Cardinality(PendingOf(upgrades, inflight[1].user_id)) <= 1


\* ---- approve / reject (SpecAdmin)
Decided == {"approved", "rejected"}
\* The installments of repayment p in the table rows.
InstallmentsOf(rows, p) == {i \in rows : i.repayment_id = p.id}

RecordedFor(rows, p) ==
    {c \in rows : c.profile_id = p.id /\ c.stripe_payment_id = "pi"}

\* C27: a paid monthly charge is counted once: the first verify_payment or
\* invoice.paid handled for it adds 1 to the member's consecutive_months_paid
\* and records one contribution; every later one for the same charge changes
\* neither.
C27_ChargeCountedOnce ==
    [][ (/\ \/ /\ last'.op = "verify_payment"
               /\ last'.retrieved
               /\ last'.payment_type = "monthly"
               /\ last'.payment_status = "paid"
            \/ /\ last'.op = "stripe_webhook"
               /\ last'.event_type = "invoice.paid"
         /\ HasProfile(profiles, last'.user_id)) =>
            LET p == CHOOSE q \in profiles : q.user_id = last'.user_id
                after == CHOOSE q \in profiles' : q.id = p.id
            IN  IF RecordedFor(contributions, p) = {}
                THEN /\ Cardinality(RecordedFor(contributions', p)) = 1
                     /\ after.consecutive_months_paid
                          = p.consecutive_months_paid + 1
                ELSE /\ contributions' = contributions
                     /\ after.consecutive_months_paid
                          = p.consecutive_months_paid ]_vars

\* ---- paying, then eligible (SpecJourney)
\* The member has had the join fee and then MonthsRequired monthly sessions
\* verified, with no failed payment since the join fee.
PaidUp(user_id) ==
    /\ user_id \in DOMAIN verified
    /\ verified[user_id].join_fee
    /\ verified[user_id].months = MonthsRequired

\* C28: check_eligibility reports eligible = true for a member with a profile
\* whose join fee and then six monthly payments were verified with no failed
\* payment in between.
C28_PaidUpMemberEligible ==
    (/\ last.op = "check_eligibility"
     /\ HasProfile(profiles, last.user_id)
     /\ PaidUp(last.user_id)) =>
        /\ last.raised = ""
        /\ last.result.eligible

\* ---- webhook events and the profile (SpecPayments)
\* The last call was the webhook with this event for a subscription whose
\* metadata names an existing profile.
WebhookFor(event_type) ==
    /\ last.op = "stripe_webhook"
    /\ last.event_type = event_type
    /\ \E p \in prev.profiles : p.id = last.profile_id

ProfileBefore == CHOOSE p \in prev.profiles : p.id = last.profile_id
ProfileAfter == CHOOSE p \in profiles : p.id = last.profile_id

\* invoice.payment_failed: one more month late; paused and the run of paid
\* months lost from the third on, both untouched before.
PaymentFailedApplied ==
    WebhookFor("invoice.payment_failed") =>
        /\ ProfileAfter.months_late = ProfileBefore.months_late + 1
        /\ IF ProfileAfter.months_late >= 3
           THEN /\ ProfileAfter.account_status = "paused"
                /\ ProfileAfter.consecutive_months_paid = 0
           ELSE /\ ProfileAfter.account_status = ProfileBefore.account_status
                /\ ProfileAfter.consecutive_months_paid
                     = ProfileBefore.consecutive_months_paid

\* invoice.paid: one more paid month, no month late, status untouched.
InvoicePaidApplied ==
    WebhookFor("invoice.paid") =>
        /\ ProfileAfter.consecutive_months_paid
             = ProfileBefore.consecutive_months_paid + 1
        /\ ProfileAfter.months_late = 0
        /\ ProfileAfter.account_status = ProfileBefore.account_status

\* C29: each invoice.payment_failed event adds 1 to months_late and, when the
\* new value is 3 or more, pauses the account and resets
\* consecutive_months_paid to 0, leaving both unchanged otherwise; each
\* invoice.paid event adds 1 to consecutive_months_paid, resets months_late
\* to 0 and leaves account_status unchanged.
C29_WebhookUpdatesProfile == PaymentFailedApplied /\ InvoicePaidApplied

\* ---- ownership in Class_upgradesService (SpecUpgradesService)
IsServiceCall == last.op \in {"get_by_id", "update", "delete"}

\* The record the call names, as it was before the call.
Named == {u \in prev.upgrades : u.id = last.obj_id}

\* The call gave back nothing, None or False.
GaveNothing ==
    IF last.op = "delete" THEN last.returned = FALSE ELSE last.returned = {}

\* C30: get_by_id, update and delete called with a non-empty user_id on a
\* record of another user give back nothing, None and False and leave the
\* table as it was; no such call changes a record the caller does not own;
\* update changes the user_id of no record, whatever update_data holds.
C30_OwnRecordsOnly ==
    IsServiceCall =>
        /\ last.user_id # "" =>
              /\ (\E u \in Named : u.user_id # last.user_id) =>
                    /\ GaveNothing
                    /\ upgrades = prev.upgrades
              /\ \A u \in prev.upgrades :
                    u.user_id # last.user_id => u \in upgrades
        /\ last.op = "update" =>
              \A u \in prev.upgrades :
                 \E v \in upgrades : v.id = u.id /\ v.user_id = u.user_id

\* u1 calls update on the record of u2 with data that names a user_id.
C30_Witness ==
    /\ last.op = "update"
    /\ last.user_id = "u1"
    /\ \E u \in Named : u.user_id = "u2"
    /\ "user_id" \in DOMAIN last.update_data
    /\ GaveNothing

====
